---- MODULE Spec2Model ----
(***************************************************************************)
(* The frame-delivery hand gesture controller of pocket-zen-garden         *)
(* (src/components/HandGestureController.tsx, lines 1-185) together with   *)
(* the audio feedback hook it drives (src/unnamed/part_001).               *)
(*                                                                         *)
(* Time is measured in milliseconds.  The code only ever compares the      *)
(* difference between "now" and a recorded timestamp with a threshold      *)
(* (startTimeMs - lastHandSeenRef.current > 150, and the cooldown test of  *)
(* the throttle), so every timestamp is kept as the time elapsed since it  *)
(* was taken, saturated just above the threshold it is compared with.      *)
(* Coordinates and roll are kept in hundredths (0.5 is 50).                *)
(*                                                                         *)
(* canvas.getContext("2d") (line 109) is taken to succeed: the canvas is   *)
(* only ever asked for a "2d" context, for which the call returns the same *)
(* context object every time.                                              *)
(***************************************************************************)
EXTENDS Integers, Sequences, FiniteSets, TLC

\* ------------------------------------------------------------------ bounds
\* A detection cycle starts Tick, 2*Tick, ..., MaxStep*Tick ms after the
\* previous one.
Tick == 75
MaxStep == 2

CycleGaps == {k * Tick : k \in 1..MaxStep}

\* The clock of the stand-alone throttle advances in steps of UnitTick ms up
\* to MaxClock.
UnitTick == 50
MaxClock == 300

\* ------------------------------------------------------- program constants
HAND_LOST_TIMEOUT_MS == 150

NEUTRAL_FRAME ==
    [x |-> 50, y |-> 50, roll |-> 0, pinch |-> FALSE, fist |-> FALSE, peace |-> FALSE]

SoundNames == {"grab", "magic", "wind"}

THROTTLE_MS == [grab |-> 200, magic |-> 300, wind |-> 500]

Triggers == {"playGrab", "playRelease", "playMagic", "playWind"}

\* The sound each throttled trigger plays.
TriggerSound ==
    [playGrab |-> "grab", playRelease |-> "grab", playMagic |-> "magic", playWind |-> "wind"]

\* A faulty variant of TriggerDelay: every trigger throttled with the grab delay.
TriggerDelay_Shared ==
    [t \in Triggers |-> THROTTLE_MS.grab]

\* The cooldown each throttled trigger is created with.
TriggerDelay ==
    [playGrab |-> THROTTLE_MS.grab, playRelease |-> THROTTLE_MS.grab,
     playMagic |-> THROTTLE_MS.magic, playWind |-> THROTTLE_MS.wind]

\* The window in which each cue is to be heard at most once; the time since a
\* cue was last heard is kept up to it.
Window ==
    [playGrab |-> 200, playRelease |-> 200, playMagic |-> 300, playWind |-> 500]

\* --------------------------------------------------------------- the inputs
\* The frames processLandmarks can return for a detected hand: every
\* combination of the three flags, at one position and roll.
Frames ==
    [x : {40}, y : {30}, roll : {20},
     pinch : BOOLEAN, fist : BOOLEAN, peace : BOOLEAN]

Flags(frame) == [pinch |-> frame.pinch, fist |-> frame.fist, peace |-> frame.peace]

\* -------------------------------------------------------------------- state
VARIABLES
    phase,              \* where init() and the detection loop stand
    handLandmarkerRef,  \* TRUE once the detector is stored in the ref
    timeSinceHandSeen,  \* time since lastHandSeenRef.current was taken
    handPresentRef,
    prevPinchRef,
    prevFistRef,
    prevPeaceRef,
    debugInfo,          \* the status shown, as the list of its labels
    contextRef,         \* TRUE once the AudioContext exists
    buffersRef,         \* per sound: "idle", "loading" or "loaded"
    sinceLastRun,       \* per trigger: time since its last accepted call
    cycle,              \* observation: what the last detection cycle did
    handSeen,           \* history: a hand was detected at least once
    gapNeutrals,        \* history: neutral frames delivered since a hand was last detected
    lastPinchCall,      \* history: the last of playGrab/playRelease invoked since the last reset
    sincePlayed,        \* history: per trigger, time since its sound last started
    clock,              \* stand-alone throttle: the current time
    unitLastRun,        \* stand-alone throttle: <<time of the last accepted call>>, <<>> if none
    callLog,            \* stand-alone throttle: the times it was called at
    fireLog,            \* stand-alone throttle: the times its callback ran at
    mount,              \* "mounted", "detached" (refs cleared) or "cleaned" (effect cleanup ran)
    consoleErrors,      \* per kind of failure: how often console.error reported it
    unhandledRejection, \* TRUE once a promise of the controller rejected with no handler
    lateCycle,          \* history: a detection cycle was processed after the refs were cleared
    isFistRef,          \* command routing: the hand was a fist in the last cycle
    fistTriggeredRef,   \* command routing: the theme toggle of this fist was sent
    routerCycle,        \* observation: what the last command-routing cycle did
    rotationSpeedRef,   \* scene: rotation per animation frame, in 1/10000 rad
    isWateringRef,      \* scene
    activeZoomRef,      \* scene: pending zoom step, in hundredths
    cameraZ,            \* scene: camera.position.z, in hundredths
    isNight,            \* scene
    lastNewZ,           \* history: newZ of the last zoom step, before the clamp
    handLandmarker,     \* the effect's local: "null", "open" or "closed"
    videoStream         \* the effect's local: "null", "live" or "stopped" (its tracks)

controllerRefs ==
    <<timeSinceHandSeen, handPresentRef, prevPinchRef, prevFistRef, prevPeaceRef,
      debugInfo>>

hookRefs == <<contextRef, buffersRef, sinceLastRun>>

history == <<cycle, handSeen, gapNeutrals, lastPinchCall, sincePlayed>>

unitVars == <<clock, unitLastRun, callLog, fireLog>>

lifeVars == <<mount, consoleErrors, unhandledRejection, lateCycle>>

resourceVars == <<handLandmarker, videoStream>>

routerVars == <<isFistRef, fistTriggeredRef, routerCycle>>

sceneVars ==
    <<rotationSpeedRef, isWateringRef, activeZoomRef, cameraZ, isNight, lastNewZ>>

vars ==
    <<phase, handLandmarkerRef, controllerRefs, hookRefs, history, unitVars,
      lifeVars, routerVars, sceneVars, resourceVars>>

\* The time elapsed is only compared with HAND_LOST_TIMEOUT_MS: it saturates
\* one tick above it.
SeenCap == HAND_LOST_TIMEOUT_MS + Tick

Min(a, b) == IF a <= b THEN a ELSE b

\* What console.error is called for: the camera, and each sound file.
ErrorKinds == {"camera", "grab", "magic", "wind"}

\* No command-routing cycle has run yet.
NoRouterCycle ==
    [kind |-> "none",
     hand |-> [points |-> 21, wristX |-> 50, wristY |-> 50, folded |-> 0,
               distance |-> 10],
     emitted |-> <<>>, threw |-> FALSE, wasFist |-> FALSE, wasTriggered |-> FALSE,
     fistBefore |-> FALSE, pendingZoom |-> 0]

\* No detection cycle has run yet.
NoCycle ==
    [kind |-> "none", gap |-> 0, frame |-> NEUTRAL_FRAME, delivered |-> <<>>,
     calls |-> {}, fired |-> {}, played |-> {}, reset |-> FALSE,
     prev |-> [kind |-> "none", pinch |-> FALSE, fist |-> FALSE, peace |-> FALSE,
               lost |-> [pinch |-> FALSE, fist |-> FALSE, peace |-> FALSE]]]

\* ------------------------------------------------------------ pure helpers
\* A faulty variant of formatDebugInfo: isHandPresent is not looked at.
formatDebugInfo_IgnoresPresence(frame, isHandPresent) ==
    LET gestures ==
            (IF frame.pinch THEN <<"Grab">> ELSE <<>>)
            \o (IF frame.fist
                THEN (IF frame.y < 50 THEN <<"Day">> ELSE <<"Night">>)
                ELSE <<>>)
            \o (IF frame.peace THEN <<"Rake">> ELSE <<>>)
            \o (IF ~frame.fist /\ (frame.roll > 10 \/ frame.roll < -10)
                THEN (IF frame.roll > 0 THEN <<"Tilt right">> ELSE <<"Tilt left">>)
                ELSE <<>>)
    IN  IF Len(gestures) > 0 THEN gestures ELSE <<"Rotate">>

\* A faulty variant of formatDebugInfo: the tilt label does not look at fist,
\* and the boundary height counts as day.
formatDebugInfo_TiltWithFist(frame, isHandPresent) ==
    IF ~isHandPresent THEN <<"Show your hand">>
    ELSE LET gestures ==
                 (IF frame.pinch THEN <<"Grab">> ELSE <<>>)
                 \o (IF frame.fist
                     THEN (IF frame.y <= 50 THEN <<"Day">> ELSE <<"Night">>)
                     ELSE <<>>)
                 \o (IF frame.peace THEN <<"Rake">> ELSE <<>>)
                 \o (IF frame.roll > 10 \/ frame.roll < -10
                     THEN (IF frame.roll > 0 THEN <<"Tilt right">> ELSE <<"Tilt left">>)
                     ELSE <<>>)
         IN  IF Len(gestures) > 0 THEN gestures ELSE <<"Rotate">>

\* formatDebugInfo: the labels of the status string, in order.
formatDebugInfo(frame, isHandPresent) ==
    IF ~isHandPresent THEN <<"Show your hand">>
    ELSE LET gestures ==
                 (IF frame.pinch THEN <<"Grab">> ELSE <<>>)
                 \o (IF frame.fist
                     THEN (IF frame.y < 50 THEN <<"Day">> ELSE <<"Night">>)
                     ELSE <<>>)
                 \o (IF frame.peace THEN <<"Rake">> ELSE <<>>)
                 \o (IF ~frame.fist /\ (frame.roll > 10 \/ frame.roll < -10)
                     THEN (IF frame.roll > 0 THEN <<"Tilt right">> ELSE <<"Tilt left">>)
                     ELSE <<>>)
         IN  IF Len(gestures) > 0 THEN gestures ELSE <<"Rotate">>

\* Faulty variants of the definitions below, each with one plausible slip.
\* playGrab, playMagic and playWind on the level of the flag, not on its edge.
EdgeTriggers_Level(frame, prevPinch, prevFist, prevPeace) ==
    (IF frame.pinch THEN {"playGrab"}
     ELSE IF prevPinch THEN {"playRelease"}
     ELSE {})
    \cup (IF frame.fist THEN {"playMagic"} ELSE {})
    \cup (IF frame.peace THEN {"playWind"} ELSE {})

\* playRelease whenever the hand is not pinching.
EdgeTriggers_ReleaseWhenOpen(frame, prevPinch, prevFist, prevPeace) ==
    (IF frame.pinch /\ ~prevPinch THEN {"playGrab"}
     ELSE IF ~frame.pinch THEN {"playRelease"}
     ELSE {})
    \cup (IF frame.fist /\ ~prevFist THEN {"playMagic"} ELSE {})
    \cup (IF frame.peace /\ ~prevPeace THEN {"playWind"} ELSE {})

\* playMagic in every cycle in which the hand is a fist.
EdgeTriggers_FistHeld(frame, prevPinch, prevFist, prevPeace) ==
    (IF frame.pinch /\ ~prevPinch THEN {"playGrab"}
     ELSE IF ~frame.pinch /\ prevPinch THEN {"playRelease"}
     ELSE {})
    \cup (IF frame.fist THEN {"playMagic"} ELSE {})
    \cup (IF frame.peace /\ ~prevPeace THEN {"playWind"} ELSE {})

\* playMagic compared with the fist flag recorded one cycle further back.
EdgeTriggers_TwoBack(frame, prevPinch, prevFist, prevPeace) ==
    (IF frame.pinch /\ ~prevPinch THEN {"playGrab"}
     ELSE IF ~frame.pinch /\ prevPinch THEN {"playRelease"}
     ELSE {})
    \cup (IF frame.fist /\ ~cycle.prev.fist THEN {"playMagic"} ELSE {})
    \cup (IF frame.peace /\ ~prevPeace THEN {"playWind"} ELSE {})

\* The hand lost at the timeout, not after it.
HandLost_AtTimeout(present, sinceSeen) ==
    present /\ sinceSeen >= HAND_LOST_TIMEOUT_MS

\* The hand lost in the first cycle without it.
HandLost_Immediate(present, sinceSeen) ==
    present

\* The pinch flag never recorded.
RecordedAfter_PinchCleared(frame) ==
    [pinch |-> FALSE, fist |-> frame.fist, peace |-> frame.peace]

\* The neutral frame in every cycle without a hand.
NoHandFrames_Always(lost) ==
    <<NEUTRAL_FRAME>>

\* A throttle that lets every call through.
ThrottleAccepts_NoCooldown(elapsed, delay) ==
    TRUE

\* The edge triggers predictWebcam invokes for a classified frame, given the
\* recorded flags of the previous cycle.
EdgeTriggers(frame, prevPinch, prevFist, prevPeace) ==
    (IF frame.pinch /\ ~prevPinch THEN {"playGrab"}
     ELSE IF ~frame.pinch /\ prevPinch THEN {"playRelease"}
     ELSE {})
    \cup (IF frame.fist /\ ~prevFist THEN {"playMagic"} ELSE {})
    \cup (IF frame.peace /\ ~prevPeace THEN {"playWind"} ELSE {})

\* The hand-lost test of a cycle without a hand.
HandLost(present, sinceSeen) ==
    present /\ sinceSeen > HAND_LOST_TIMEOUT_MS

\* The flags predictWebcam records for the next cycle after a classified frame.
RecordedAfter(frame) ==
    [pinch |-> frame.pinch, fist |-> frame.fist, peace |-> frame.peace]

\* The frames a cycle without a hand passes to onHandFrame.
NoHandFrames(lost) ==
    IF lost THEN <<NEUTRAL_FRAME>> ELSE <<>>

\* useThrottledCallback: a call is let through when at least `delay` ms have
\* passed since the last call let through (or none was).
ThrottleAccepts(elapsed, delay) ==
    elapsed >= delay

\* The time since each trigger's last accepted call, `gap` ms later.
Elapsed(gap) ==
    [t \in Triggers |-> Min(sinceLastRun[t] + gap, TriggerDelay[t])]

\* The calls among `calls` the throttles let through, `gap` ms later.
Accepted(calls, gap) ==
    {t \in calls : ThrottleAccepts(Elapsed(gap)[t], TriggerDelay[t])}

\* A faulty variant of Plays: the buffer is not looked at.
Plays_NoBufferCheck(name) ==
    contextRef

\* A faulty variant of Plays: a sound whose file is requested counts as there.
Plays_WhileLoading(name) ==
    contextRef /\ buffersRef[name] \in {"loading", "loaded"}

\* play(name, ...): a sound starts only with a context and a loaded buffer.
Plays(name) ==
    contextRef /\ buffersRef[name] = "loaded"

\* -------------------------------------------------------------------- init
Init ==
    /\ phase = "loadingDetector"
    /\ handLandmarkerRef = FALSE
    /\ timeSinceHandSeen = SeenCap
    /\ handPresentRef = FALSE
    /\ prevPinchRef = FALSE
    /\ prevFistRef = FALSE
    /\ prevPeaceRef = FALSE
    /\ debugInfo = <<"Show your hand">>
    /\ contextRef = FALSE
    /\ buffersRef = [n \in SoundNames |-> "idle"]
    /\ sinceLastRun = [t \in Triggers |-> TriggerDelay[t]]
    /\ cycle = NoCycle
    /\ handSeen = FALSE
    /\ gapNeutrals = 0
    /\ lastPinchCall = "none"
    /\ sincePlayed = [t \in Triggers |-> Window[t]]
    /\ clock = 0
    /\ unitLastRun = <<>>
    /\ callLog = {}
    /\ fireLog = {}
    /\ mount = "mounted"
    /\ handLandmarker = "null"
    /\ videoStream = "null"
    /\ consoleErrors = [k \in ErrorKinds |-> 0]
    /\ unhandledRejection = FALSE
    /\ lateCycle = FALSE
    /\ isFistRef = FALSE
    /\ fistTriggeredRef = FALSE
    /\ routerCycle = NoRouterCycle
    /\ rotationSpeedRef = 0
    /\ isWateringRef = FALSE
    /\ activeZoomRef = 0
    /\ cameraZ = 700
    /\ isNight = FALSE
    /\ lastNewZ = 700

\* ----------------------------------------------------------------- actions
\* init(): HandLandmarker.createFromOptions resolved.
DetectorLoaded ==
    /\ phase = "loadingDetector"
    /\ phase' = "requestingCamera"
    /\ handLandmarkerRef' = TRUE
    /\ handLandmarker' = "open"
    /\ UNCHANGED videoStream
    /\ UNCHANGED <<controllerRefs, hookRefs, history, unitVars, lifeVars,
                   routerVars, sceneVars>>

\* preloadSounds(): every sound not loaded yet starts loading, and getContext
\* creates the AudioContext.
PreloadSounds ==
    /\ contextRef' = TRUE
    /\ buffersRef' = [n \in SoundNames |->
                        IF buffersRef[n] = "loaded" THEN "loaded" ELSE "loading"]

\* init(): getUserMedia resolved; the loadeddata listener is added when the
\* video element is still there, then the sounds are preloaded.
CameraGranted ==
    /\ phase = "requestingCamera"
    /\ phase' = IF mount = "mounted" THEN "awaitingVideo" ELSE "noListener"
    /\ PreloadSounds
    /\ videoStream' = "live"
    /\ UNCHANGED handLandmarker
    /\ UNCHANGED <<handLandmarkerRef, controllerRefs, sinceLastRun, history, unitVars,
                   lifeVars, routerVars, sceneVars>>

\* A faulty variant of CameraDenied: the rejection is not caught, init() ends
\* there.
CameraDenied_Uncaught ==
    /\ phase = "requestingCamera"
    /\ phase' = "noCamera"
    /\ unhandledRejection' = TRUE
    /\ UNCHANGED <<handLandmarkerRef, controllerRefs, hookRefs, history, unitVars,
                   mount, consoleErrors, lateCycle, routerVars, sceneVars,
                   resourceVars>>

\* init(): getUserMedia rejected; the error is logged, then the sounds are
\* preloaded.  No listener is added: no detection cycle will run.
CameraDenied ==
    /\ phase = "requestingCamera"
    /\ phase' = "noCamera"
    /\ consoleErrors' = [consoleErrors EXCEPT !.camera = @ + 1]
    /\ PreloadSounds
    /\ UNCHANGED <<handLandmarkerRef, controllerRefs, sinceLastRun, history, unitVars,
                   mount, unhandledRejection, lateCycle, routerVars, sceneVars,
                   resourceVars>>

\* init(): navigator.mediaDevices?.getUserMedia is not there; the camera is
\* not asked for and nothing is logged, then the sounds are preloaded.
CameraApiMissing ==
    /\ phase = "requestingCamera"
    /\ phase' = "noCameraApi"
    /\ PreloadSounds
    /\ UNCHANGED <<handLandmarkerRef, controllerRefs, sinceLastRun, history, unitVars,
                   lifeVars, routerVars, sceneVars,
                   resourceVars>>

\* loadSound: decodeAudioData resolved and the buffer is stored.
SoundLoaded(name) ==
    /\ buffersRef[name] = "loading"
    /\ buffersRef' = [buffersRef EXCEPT ![name] = "loaded"]
    /\ UNCHANGED <<phase, handLandmarkerRef, controllerRefs, contextRef,
                   sinceLastRun, history, unitVars, lifeVars, routerVars, sceneVars,
                   resourceVars>>

\* loadSound: fetch or decodeAudioData rejected; the catch logs the error and
\* the buffer stays unset.
SoundFailed(name) ==
    /\ buffersRef[name] = "loading"
    /\ buffersRef' = [buffersRef EXCEPT ![name] = "failed"]
    /\ consoleErrors' = [consoleErrors EXCEPT ![name] = @ + 1]
    /\ UNCHANGED <<phase, handLandmarkerRef, controllerRefs, contextRef,
                   sinceLastRun, history, unitVars, mount, unhandledRejection,
                   lateCycle, routerVars, sceneVars,
                   resourceVars>>

\* init(): FilesetResolver.forVisionTasks or HandLandmarker.createFromOptions
\* rejected.  init() is called without a handler for its promise and has no
\* try around these awaits: the rejection is unhandled and init() ends.
DetectorFailed ==
    /\ phase = "loadingDetector"
    /\ phase' = "detectorFailed"
    /\ unhandledRejection' = TRUE
    /\ UNCHANGED <<handLandmarkerRef, controllerRefs, hookRefs, history, unitVars,
                   mount, consoleErrors, lateCycle, routerVars, sceneVars,
                   resourceVars>>

\* The component is removed: React clears videoRef and canvasRef.
Unmount ==
    /\ mount = "mounted"
    /\ mount' = "detached"
    /\ UNCHANGED <<phase, handLandmarkerRef, controllerRefs, hookRefs, history,
                   unitVars, consoleErrors, unhandledRejection, lateCycle,
                   routerVars, sceneVars,
                   resourceVars>>

\* The cleanup of the effect: cancelAnimationFrame drops the pending callback
\* of a running loop.
Cleanup ==
    /\ mount = "detached"
    /\ mount' = "cleaned"
    /\ phase' = IF phase = "running" THEN "cancelled" ELSE phase
    /\ handLandmarker' = IF handLandmarker = "open" THEN "closed" ELSE handLandmarker
    /\ videoStream' = IF videoStream = "live" THEN "stopped" ELSE videoStream
    /\ UNCHANGED <<handLandmarkerRef, controllerRefs, hookRefs, history,
                   unitVars, consoleErrors, unhandledRejection, lateCycle,
                   routerVars, sceneVars>>

\* A faulty variant of LoopDue: the guard does not look at the video element.
LoopDue_NoVideoCheck ==
    /\ phase \in {"awaitingVideo", "running"}
    /\ handLandmarkerRef

\* predictWebcam runs: as the loadeddata listener the first time, as the
\* animation-frame callback afterwards.
LoopDue ==
    /\ phase \in {"awaitingVideo", "running"}
    /\ handLandmarkerRef
    /\ mount = "mounted"

\* predictWebcam is called (by loadeddata, or by an animation frame due
\* before the cleanup) and returns at its first line: nothing is processed
\* and no animation frame is asked for.
StaleCallback ==
    /\ phase \in {"awaitingVideo", "running"}
    /\ ~LoopDue
    /\ phase' = "stopped"
    /\ UNCHANGED <<handLandmarkerRef, controllerRefs, hookRefs, history, unitVars,
                   lifeVars, routerVars, sceneVars,
                   resourceVars>>

\* The flags the last hand-lost reset cleared, while no hand has been
\* detected since; all false otherwise.
LostFlags ==
    IF cycle.kind = "nohand" /\ cycle.reset
    THEN [pinch |-> cycle.prev.pinch, fist |-> cycle.prev.fist, peace |-> cycle.prev.peace]
    ELSE IF cycle.kind = "nohand" THEN cycle.prev.lost
    ELSE [pinch |-> FALSE, fist |-> FALSE, peace |-> FALSE]

\* The recorded flags and the kind of the last cycle, as a cycle finds them.
Recorded ==
    [kind |-> cycle.kind, pinch |-> prevPinchRef, fist |-> prevFistRef,
     peace |-> prevPeaceRef, lost |-> LostFlags]

\* The time since each trigger's sound last started, `gap` ms later.
Heard(played, gap) ==
    [t \in Triggers |->
        IF t \in played THEN 0 ELSE Min(sincePlayed[t] + gap, Window[t])]

\* A faulty variant of DetectedCycle: hand presence is not recorded.
DetectedCycle_PresenceNotSet(frame, gap) ==
    LET calls == EdgeTriggers(frame, prevPinchRef, prevFistRef, prevPeaceRef)
        accepted == Accepted(calls, gap)
        played == {t \in accepted : Plays(TriggerSound[t])}
    IN  /\ LoopDue
        /\ phase' = "running"
        /\ timeSinceHandSeen' = 0
        /\ UNCHANGED handPresentRef
        /\ prevPinchRef' = RecordedAfter(frame).pinch
        /\ prevFistRef' = RecordedAfter(frame).fist
        /\ prevPeaceRef' = RecordedAfter(frame).peace
        /\ sinceLastRun' = [t \in Triggers |->
                              IF t \in accepted THEN 0 ELSE Elapsed(gap)[t]]
        /\ debugInfo' = formatDebugInfo(frame, TRUE)
        /\ cycle' = [kind |-> "hand", gap |-> gap, frame |-> frame,
                     delivered |-> <<frame>>, calls |-> calls, fired |-> accepted,
                     played |-> played, reset |-> FALSE, prev |-> Recorded]
        /\ handSeen' = TRUE
        /\ gapNeutrals' = 0
        /\ lastPinchCall' = IF "playGrab" \in calls THEN "playGrab"
                            ELSE IF "playRelease" \in calls THEN "playRelease"
                            ELSE lastPinchCall
        /\ sincePlayed' = Heard(played, gap)
        /\ lateCycle' = (lateCycle \/ mount # "mounted")
        /\ UNCHANGED <<handLandmarkerRef, contextRef, buffersRef, unitVars,
                       mount, consoleErrors, unhandledRejection, routerVars, sceneVars,
                   resourceVars>>

\* predictWebcam, a hand is detected: `frame` is what processLandmarks
\* returns, `gap` the time since the previous cycle started.
DetectedCycle(frame, gap) ==
    LET calls == EdgeTriggers(frame, prevPinchRef, prevFistRef, prevPeaceRef)
        accepted == Accepted(calls, gap)
        played == {t \in accepted : Plays(TriggerSound[t])}
    IN  /\ LoopDue
        /\ phase' = "running"
        /\ timeSinceHandSeen' = 0
        /\ handPresentRef' = TRUE
        /\ prevPinchRef' = RecordedAfter(frame).pinch
        /\ prevFistRef' = RecordedAfter(frame).fist
        /\ prevPeaceRef' = RecordedAfter(frame).peace
        /\ sinceLastRun' = [t \in Triggers |->
                              IF t \in accepted THEN 0 ELSE Elapsed(gap)[t]]
        /\ debugInfo' = formatDebugInfo(frame, TRUE)
        /\ cycle' = [kind |-> "hand", gap |-> gap, frame |-> frame,
                     delivered |-> <<frame>>, calls |-> calls, fired |-> accepted,
                     played |-> played, reset |-> FALSE, prev |-> Recorded]
        /\ handSeen' = TRUE
        /\ gapNeutrals' = 0
        /\ lastPinchCall' = IF "playGrab" \in calls THEN "playGrab"
                            ELSE IF "playRelease" \in calls THEN "playRelease"
                            ELSE lastPinchCall
        /\ sincePlayed' = Heard(played, gap)
        /\ lateCycle' = (lateCycle \/ mount # "mounted")
        /\ UNCHANGED <<handLandmarkerRef, contextRef, buffersRef, unitVars,
                       mount, consoleErrors, unhandledRejection, routerVars, sceneVars,
                   resourceVars>>

\* predictWebcam, no hand is detected, `gap` ms after the previous cycle;
\* `resetCalls` are the triggers the hand-lost reset invokes.
NoHandCycleWith(gap, resetCalls) ==
    LET sinceSeen == Min(timeSinceHandSeen + gap, SeenCap)
        lost == HandLost(handPresentRef, sinceSeen)
        calls == IF lost THEN resetCalls ELSE {}
        accepted == Accepted(calls, gap)
        played == {t \in accepted : Plays(TriggerSound[t])}
    IN  /\ LoopDue
        /\ phase' = "running"
        /\ timeSinceHandSeen' = sinceSeen
        /\ sinceLastRun' = [t \in Triggers |->
                              IF t \in accepted THEN 0 ELSE Elapsed(gap)[t]]
        /\ IF lost
           THEN /\ handPresentRef' = FALSE
                /\ prevPinchRef' = FALSE
                /\ prevFistRef' = FALSE
                /\ prevPeaceRef' = FALSE
                /\ debugInfo' = formatDebugInfo(NEUTRAL_FRAME, FALSE)
           ELSE UNCHANGED <<handPresentRef, prevPinchRef, prevFistRef,
                            prevPeaceRef, debugInfo>>
        /\ cycle' = [kind |-> "nohand", gap |-> gap, frame |-> NEUTRAL_FRAME,
                     delivered |-> NoHandFrames(lost),
                     calls |-> calls, fired |-> accepted, played |-> played,
                     reset |-> lost, prev |-> Recorded]
        /\ gapNeutrals' = Min(gapNeutrals + Len(NoHandFrames(lost)), 2)
        /\ UNCHANGED handSeen
        /\ lastPinchCall' = IF lost THEN "none" ELSE lastPinchCall
        /\ sincePlayed' = Heard(played, gap)
        /\ lateCycle' = (lateCycle \/ mount # "mounted")
        /\ UNCHANGED <<handLandmarkerRef, contextRef, buffersRef, unitVars,
                       mount, consoleErrors, unhandledRejection, routerVars, sceneVars,
                   resourceVars>>

\* A faulty variant of NoHandCycle: the reset clears hand presence and leaves
\* the recorded flags as they are.
NoHandCycle_KeepsFlags(gap) ==
    LET sinceSeen == Min(timeSinceHandSeen + gap, SeenCap)
        lost == HandLost(handPresentRef, sinceSeen)
    IN  /\ LoopDue
        /\ phase' = "running"
        /\ timeSinceHandSeen' = sinceSeen
        /\ sinceLastRun' = Elapsed(gap)
        /\ IF lost
           THEN /\ handPresentRef' = FALSE
                /\ debugInfo' = formatDebugInfo(NEUTRAL_FRAME, FALSE)
           ELSE UNCHANGED <<handPresentRef, debugInfo>>
        /\ UNCHANGED <<prevPinchRef, prevFistRef, prevPeaceRef>>
        /\ cycle' = [kind |-> "nohand", gap |-> gap, frame |-> NEUTRAL_FRAME,
                     delivered |-> NoHandFrames(lost),
                     calls |-> {}, fired |-> {}, played |-> {},
                     reset |-> lost, prev |-> Recorded]
        /\ gapNeutrals' = Min(gapNeutrals + Len(NoHandFrames(lost)), 2)
        /\ UNCHANGED handSeen
        /\ lastPinchCall' = IF lost THEN "none" ELSE lastPinchCall
        /\ sincePlayed' = Heard({}, gap)
        /\ lateCycle' = (lateCycle \/ mount # "mounted")
        /\ UNCHANGED <<handLandmarkerRef, contextRef, buffersRef, unitVars,
                       mount, consoleErrors, unhandledRejection, routerVars, sceneVars,
                   resourceVars>>

\* A faulty variant of NoHandCycle: the reset invokes playRelease for a
\* recorded pinch.
NoHandCycle_ReleaseOnLost(gap) ==
    NoHandCycleWith(gap, IF prevPinchRef THEN {"playRelease"} ELSE {})

\* The reset invokes no trigger.
NoHandCycle(gap) ==
    NoHandCycleWith(gap, {})

\* The detection loop with its initialisation; the sound files are still
\* being fetched.
Next ==
    \/ DetectorLoaded
    \/ CameraGranted
    \/ CameraDenied
    \/ \E frame \in Frames, gap \in CycleGaps : DetectedCycle(frame, gap)
    \/ \E gap \in CycleGaps : NoHandCycle(gap)

Spec == Init /\ [][Next]_vars

\* The same at a steady rate of one cycle per tick, with any of the sound
\* files arriving before the first cycle.
NextAudio ==
    \/ DetectorLoaded
    \/ CameraGranted
    \/ CameraDenied
    \/ \E name \in SoundNames : phase # "running" /\ SoundLoaded(name)
    \/ \E frame \in Frames : DetectedCycle(frame, Tick)
    \/ NoHandCycle(Tick)

SpecAudio == Init /\ [][NextAudio]_vars

\* The detection loop at a steady rate with the failures of its
\* initialisation and the teardown of the component at any moment.
NextLifecycle ==
    \/ DetectorLoaded
    \/ DetectorFailed
    \/ CameraGranted
    \/ CameraDenied
    \/ CameraApiMissing
    \/ Unmount
    \/ Cleanup
    \/ StaleCallback
    \/ \E frame \in Frames : DetectedCycle(frame, Tick)
    \/ NoHandCycle(Tick)

SpecLifecycle == Init /\ [][NextLifecycle]_vars

\* Hands that pinch and make a fist, and the two sounds they ask for.
PinchFistFrames == {frame \in Frames : ~frame.peace}

PinchFistSounds == {"grab", "magic"}

\* The detection loop at a steady rate over such hands, each of the two sound
\* files having arrived or failed before the first cycle.
NextDegraded ==
    \/ DetectorLoaded
    \/ CameraGranted
    \/ \E name \in PinchFistSounds : phase # "running" /\ SoundLoaded(name)
    \/ \E name \in PinchFistSounds : phase # "running" /\ SoundFailed(name)
    \/ \E frame \in PinchFistFrames : DetectedCycle(frame, Tick)
    \/ NoHandCycle(Tick)

SpecDegraded == Init /\ [][NextDegraded]_vars

\* Hands that only pinch, and the sound they ask for.
PinchFrames == {frame \in Frames : ~frame.fist /\ ~frame.peace}

\* The detection loop at a steady rate over such hands, with the grab sound
\* arriving at any moment after preloadSounds(), the loop running or not.
NextPreload ==
    \/ DetectorLoaded
    \/ CameraGranted
    \/ SoundLoaded("grab")
    \/ \E frame \in PinchFrames : DetectedCycle(frame, Tick)
    \/ NoHandCycle(Tick)

SpecPreload == Init /\ [][NextPreload]_vars

\* Frames on both sides of the thresholds of the status string: heights
\* around 0.5, rolls around -0.1, 0 and 0.1.
StatusFrames ==
    [x : {40}, y : {49, 50}, roll : {-11, -10, 0, 10, 11},
     pinch : BOOLEAN, fist : BOOLEAN, peace : BOOLEAN]

\* A slow cadence: the cooldown of every trigger has passed at each cycle.
SlowGap == 7 * Tick

\* The detection loop at that cadence over such frames.
NextStatus ==
    \/ DetectorLoaded
    \/ CameraGranted
    \/ \E frame \in StatusFrames : DetectedCycle(frame, SlowGap)
    \/ NoHandCycle(SlowGap)

SpecStatus == Init /\ [][NextStatus]_vars

\* ------------------------------------------------- the throttle on its own
\* One throttled callback with playGrab's cooldown, called at arbitrary times.
UnitDelay == TriggerDelay.playGrab

\* A call of the throttled callback at the current time.
UnitCall ==
    LET elapsed == IF unitLastRun = <<>> THEN UnitDelay ELSE clock - unitLastRun[1]
        accepted == ThrottleAccepts(elapsed, UnitDelay)
    IN  /\ callLog' = callLog \cup {clock}
        /\ fireLog' = IF accepted THEN fireLog \cup {clock} ELSE fireLog
        /\ unitLastRun' = IF accepted THEN <<clock>> ELSE unitLastRun
        /\ UNCHANGED <<clock, phase, handLandmarkerRef, controllerRefs, hookRefs,
                       history, lifeVars, routerVars, sceneVars,
                   resourceVars>>

\* Time passes without a call.
UnitAdvance ==
    /\ clock + UnitTick <= MaxClock
    /\ clock' = clock + UnitTick
    /\ UNCHANGED <<unitLastRun, callLog, fireLog, phase, handLandmarkerRef,
                   controllerRefs, hookRefs, history, lifeVars, routerVars, sceneVars,
                   resourceVars>>

NextThrottle ==
    \/ UnitCall
    \/ UnitAdvance

SpecThrottle == Init /\ [][NextThrottle]_vars

\* ------------------------------------------- the command-routing controller
\* The second controller of HandGestureController.tsx (lines 187-399) sends
\* commands to the scene through onGesture; page.tsx passes them on to the
\* handle of ZenGarden.  Positions, distances and command values are kept in
\* hundredths.  A hand is what predictWebcam reads of a landmark set: the
\* number of its points, the wrist position, how many fingers, counted from
\* the index finger, are folded before the first open one (4: all of them),
\* and the distance between thumb tip and index tip.
FullHands ==
    [points : {21}, wristX : {30, 39, 40, 50, 60, 61, 70}, wristY : {29, 30},
     folded : {0, 2, 4}, distance : {4, 5, 15, 16}]

\* Landmark sets with fewer than 21 points.
PartialHands ==
    [points : {0, 5, 12}, wristX : {50, 70}, wristY : {29}, folded : {0, 2, 4},
     distance : {4, 16}]

Hands == FullHands \cup PartialHands

Abs(n) == IF n < 0 THEN -n ELSE n

\* A faulty variant of ClampZ: no clamp.
ClampZ_None(z) == z

\* Math.max(2, Math.min(12, newZ)).
ClampZ(z) ==
    IF z > 1200 THEN 1200 ELSE IF z < 200 THEN 200 ELSE z

\* A faulty variant of RotationVal: no dead zone.
RotationVal_NoDeadZone(wristX) == (50 - wristX) * 4

\* rotationVal: zero inside the dead zone around the centre.
RotationVal(wristX) ==
    IF Abs(wristX - 50) > 10 THEN (50 - wristX) * 4 ELSE 0

\* The index of the last fingertip the fist loop reads: it stops at the
\* first open finger.
LoopReach(folded) == 8 + 4 * Min(folded, 3)

\* A faulty variant of ZoomCommands: one threshold, no dead zone.
ZoomCommands_NoDeadZone(distance) ==
    IF distance < 10 THEN << <<"ZOOM", 10>> >> ELSE << <<"ZOOM", -10>> >>

\* The zoom command of a cycle, from the thumb-index distance.
ZoomCommands(distance) ==
    IF distance < 5 THEN << <<"ZOOM", 10>> >>
    ELSE IF distance > 15 THEN << <<"ZOOM", -10>> >>
    ELSE <<>>

\* A faulty variant of RouterRun: the watering test does not look at the
\* fist.
RouterRun_WaterWithFist(hand, wasFist, wasTriggered) ==
    LET rotate == << <<"ROTATE", RotationVal(hand.wristX)>> >>
        fingersFolded == hand.folded = 4
        toggle == IF fingersFolded /\ ~wasFist /\ ~wasTriggered
                  THEN << <<"TOGGLE_THEME">> >> ELSE <<>>
        water == IF hand.wristY < 30
                 THEN << <<"WATER", 2>> >> ELSE <<>>
    IN  IF hand.points < 1
        THEN [emitted |-> <<>>, threw |-> TRUE,
              isFist |-> wasFist, triggered |-> wasTriggered]
        ELSE IF hand.points <= LoopReach(hand.folded)
        THEN [emitted |-> rotate, threw |-> TRUE,
              isFist |-> wasFist, triggered |-> wasTriggered]
        ELSE [emitted |-> rotate \o toggle \o water \o ZoomCommands(hand.distance),
              threw |-> FALSE,
              isFist |-> fingersFolded,
              triggered |-> IF fingersFolded THEN (wasTriggered \/ ~wasFist) ELSE FALSE]

\* What one pass of predictWebcam over a detected landmark set does, given
\* the fist latch it finds: the commands it sends, in order, whether it ends
\* in a TypeError (a landmark it reads is not there), and the latch it leaves.
RouterRun(hand, wasFist, wasTriggered) ==
    LET rotate == << <<"ROTATE", RotationVal(hand.wristX)>> >>
        fingersFolded == hand.folded = 4
        toggle == IF fingersFolded /\ ~wasFist /\ ~wasTriggered
                  THEN << <<"TOGGLE_THEME">> >> ELSE <<>>
        water == IF ~fingersFolded /\ hand.wristY < 30
                 THEN << <<"WATER", 2>> >> ELSE <<>>
    IN  IF hand.points < 1
        THEN [emitted |-> <<>>, threw |-> TRUE,
              isFist |-> wasFist, triggered |-> wasTriggered]
        ELSE IF hand.points <= LoopReach(hand.folded)
        THEN [emitted |-> rotate, threw |-> TRUE,
              isFist |-> wasFist, triggered |-> wasTriggered]
        ELSE [emitted |-> rotate \o toggle \o water \o ZoomCommands(hand.distance),
              threw |-> FALSE,
              isFist |-> fingersFolded,
              triggered |-> IF fingersFolded THEN (wasTriggered \/ ~wasFist) ELSE FALSE]

\* The commands of `emitted` with the given action.
Sent(emitted, action) ==
    SelectSeq(emitted, LAMBDA c : c[1] = action)

\* handleGesture and the handle of ZenGarden, applied to the commands of one
\* cycle: each command sets the ref it is for.
ApplyCommands(emitted) ==
    LET rot == Sent(emitted, "ROTATE")
        wat == Sent(emitted, "WATER")
        zoo == Sent(emitted, "ZOOM")
        tog == Sent(emitted, "TOGGLE_THEME")
    IN  /\ rotationSpeedRef' = IF Len(rot) > 0 THEN rot[Len(rot)][2] * 5
                               ELSE rotationSpeedRef
        /\ isWateringRef' = IF Len(wat) > 0 THEN wat[Len(wat)][2] > 0
                            ELSE isWateringRef
        /\ activeZoomRef' = IF Len(zoo) > 0 THEN zoo[Len(zoo)][2] ELSE activeZoomRef
        /\ isNight' = IF Len(tog) % 2 = 1 THEN ~isNight ELSE isNight

\* A hand that stands for "none" in the record of a cycle without one.
NoHand ==
    [points |-> 21, wristX |-> 50, wristY |-> 50, folded |-> 0, distance |-> 10]

\* Whether the most recent cycle that detected a hand saw a fist (FALSE when
\* there was none), read off the record of the last cycle.
LastDetectedFist ==
    IF routerCycle.kind = "hand" THEN routerCycle.hand.folded = 4
    ELSE routerCycle.fistBefore

\* startCamera(): getUserMedia resolved.
RouterCameraGranted ==
    /\ phase = "requestingCamera"
    /\ phase' = IF mount = "mounted" THEN "awaitingVideo" ELSE "noListener"
    /\ UNCHANGED <<handLandmarkerRef, controllerRefs, hookRefs, history, unitVars,
                   lifeVars, routerVars, sceneVars,
                   resourceVars>>

\* startCamera(): getUserMedia rejected; the error is logged.
RouterCameraDenied ==
    /\ phase = "requestingCamera"
    /\ phase' = "noCamera"
    /\ consoleErrors' = [consoleErrors EXCEPT !.camera = @ + 1]
    /\ UNCHANGED <<handLandmarkerRef, controllerRefs, hookRefs, history, unitVars,
                   mount, unhandledRejection, lateCycle, routerVars, sceneVars,
                   resourceVars>>

\* predictWebcam of the command-routing controller, a landmark set is
\* detected.  A TypeError ends the callback before it asks for the next
\* animation frame: the loop stops.
RouterCycle(hand) ==
    LET run == RouterRun(hand, isFistRef, fistTriggeredRef)
    IN  /\ LoopDue
        /\ phase' = IF run.threw THEN "crashed" ELSE "running"
        /\ isFistRef' = run.isFist
        /\ fistTriggeredRef' = run.triggered
        /\ ApplyCommands(run.emitted)
        /\ routerCycle' = [kind |-> "hand", hand |-> hand, emitted |-> run.emitted,
                           threw |-> run.threw, wasFist |-> isFistRef,
                           wasTriggered |-> fistTriggeredRef,
                           fistBefore |-> LastDetectedFist,
                           pendingZoom |-> activeZoomRef]
        /\ UNCHANGED <<handLandmarkerRef, controllerRefs, hookRefs, history, unitVars,
                       lifeVars, cameraZ, lastNewZ,
                   resourceVars>>

\* A faulty variant of RouterNoHandCycle: a cycle without a hand clears the
\* fist latch.
RouterNoHandCycle_Rearm ==
    /\ LoopDue
    /\ phase' = "running"
    /\ isFistRef' = FALSE
    /\ fistTriggeredRef' = FALSE
    /\ routerCycle' = [kind |-> "nohand", hand |-> NoHand, emitted |-> <<>>,
                       threw |-> FALSE, wasFist |-> isFistRef,
                       wasTriggered |-> fistTriggeredRef,
                       fistBefore |-> LastDetectedFist,
                       pendingZoom |-> activeZoomRef]
    /\ UNCHANGED <<handLandmarkerRef, controllerRefs, hookRefs, history, unitVars,
                   lifeVars, sceneVars,
                   resourceVars>>

\* A faulty variant of RouterNoHandCycle: a cycle without a hand sends
\* ROTATE(0).
RouterNoHandCycle_StopsRotation ==
    /\ LoopDue
    /\ phase' = "running"
    /\ ApplyCommands(<< <<"ROTATE", 0>> >>)
    /\ routerCycle' = [kind |-> "nohand", hand |-> NoHand,
                       emitted |-> << <<"ROTATE", 0>> >>,
                       threw |-> FALSE, wasFist |-> isFistRef,
                       wasTriggered |-> fistTriggeredRef,
                       fistBefore |-> LastDetectedFist,
                       pendingZoom |-> activeZoomRef]
    /\ UNCHANGED <<handLandmarkerRef, controllerRefs, hookRefs, history, unitVars,
                   lifeVars, isFistRef, fistTriggeredRef, cameraZ, lastNewZ,
                   resourceVars>>

\* predictWebcam of the command-routing controller, no landmark set.
RouterNoHandCycle ==
    /\ LoopDue
    /\ phase' = "running"
    /\ routerCycle' = [kind |-> "nohand", hand |-> NoHand, emitted |-> <<>>,
                       threw |-> FALSE, wasFist |-> isFistRef,
                       wasTriggered |-> fistTriggeredRef,
                       fistBefore |-> LastDetectedFist,
                       pendingZoom |-> activeZoomRef]
    /\ UNCHANGED <<handLandmarkerRef, controllerRefs, hookRefs, history, unitVars,
                   lifeVars, isFistRef, fistTriggeredRef, sceneVars,
                   resourceVars>>

\* A faulty variant of Animate: the pending zoom step is not cleared.
Animate_KeepsPending ==
    /\ activeZoomRef # 0
    /\ lastNewZ' = cameraZ - activeZoomRef
    /\ cameraZ' = ClampZ(cameraZ - activeZoomRef)
    /\ UNCHANGED <<phase, handLandmarkerRef, controllerRefs, hookRefs, history,
                   unitVars, lifeVars, routerVars, rotationSpeedRef, isWateringRef,
                   activeZoomRef, isNight, resourceVars>>

\* animate() of ZenGarden: a pending zoom step moves the camera, inside its
\* bounds, and is cleared.
Animate ==
    /\ activeZoomRef # 0
    /\ lastNewZ' = cameraZ - activeZoomRef
    /\ cameraZ' = ClampZ(cameraZ - activeZoomRef)
    /\ activeZoomRef' = 0
    /\ UNCHANGED <<phase, handLandmarkerRef, controllerRefs, hookRefs, history,
                   unitVars, lifeVars, routerVars, rotationSpeedRef, isWateringRef,
                   isNight,
                   resourceVars>>

\* The command-routing controller with its initialisation.
NextRouter ==
    \/ DetectorLoaded
    \/ RouterCameraGranted
    \/ RouterCameraDenied
    \/ \E hand \in Hands : RouterCycle(hand)
    \/ RouterNoHandCycle

SpecRouter == Init /\ [][NextRouter]_vars

\* Hands that differ in the thumb-index distance only.
ZoomHands ==
    {hand \in FullHands : hand.wristX = 50 /\ hand.wristY = 30 /\ hand.folded = 0}

\* The command-routing controller and the animation loop of the scene.
NextZoom ==
    \/ DetectorLoaded
    \/ RouterCameraGranted
    \/ \E hand \in ZoomHands : RouterCycle(hand)
    \/ RouterNoHandCycle
    \/ Animate

SpecZoom == Init /\ [][NextZoom]_vars

\* ----------------------------------------------- the fist test on landmarks
\* What the fist loop reads of one finger: the distances of its tip and of
\* its PIP joint from the wrist (Math.hypot), in hundredths.
FingerReadings ==
    {[dTip |-> 5, dPip |-> 10], [dTip |-> 12, dPip |-> 10], [dTip |-> 13, dPip |-> 10]}

\* The four fingers of tips and pips, in the order of the loop: index,
\* middle, ring, pinky.
FingerIndexes == 1 .. 4

RECURSIVE FoldedFrom_NoTolerance(_, _)
\* A faulty variant of FoldedFrom: a tip farther than its PIP counts as open.
FoldedFrom_NoTolerance(fingers, i) ==
    IF i > 4 THEN 0
    ELSE IF fingers[i].dTip > fingers[i].dPip THEN 0
    ELSE 1 + FoldedFrom_NoTolerance(fingers, i + 1)

RECURSIVE FoldedFrom(_, _)
\* The fist loop from finger i on: the number of fingers it passes before it
\* breaks at one with dTip > dPip * 1.2.
FoldedFrom(fingers, i) ==
    IF i > 4 THEN 0
    ELSE IF fingers[i].dTip * 10 > fingers[i].dPip * 12 THEN 0
    ELSE 1 + FoldedFrom(fingers, i + 1)

\* Full landmark sets given by their finger readings: the wrist is at the
\* centre, low in the picture, the thumb tip at 0.1 of the index tip.  The
\* thumb's own reading is part of the landmark set; no line of the loop
\* reads it.
LandmarkHands ==
    {[points |-> 21, wristX |-> 50, wristY |-> 30,
      folded |-> FoldedFrom(fingers, 1), distance |-> 10,
      fingers |-> fingers, thumb |-> thumb] :
        fingers \in [FingerIndexes -> FingerReadings], thumb \in FingerReadings}

\* The command-routing controller over such landmark sets.
NextFist ==
    \/ DetectorLoaded
    \/ RouterCameraGranted
    \/ \E hand \in LandmarkHands : RouterCycle(hand)
    \/ RouterNoHandCycle

SpecFist == Init /\ [][NextFist]_vars

\* ------------------------------------------------- the gesture classifier
\* processLandmarks is imported from @/lib/mediapipe, which is not among the
\* sources; it is taken from its specification.  A landmark set is what the
\* classifier reads of it: the wrist position, the roll, the readings of the
\* four fingers and the distance between thumb tip and index tip.
PINCH_THRESHOLD == 5

\* Each finger's tip is at 1.2 or at 1.3 times its PIP distance, the thumb
\* tip at 0.04 or 0.05 of the index tip.
LandmarkSets ==
    [wristX : {40}, wristY : {30}, roll : {20},
     fingers : [FingerIndexes -> {r \in FingerReadings : r.dTip >= 12}],
     pinchDistance : {4, 5}]

\* isFingerExtended: the tip is farther from the wrist than 1.2 times the PIP.
isFingerExtended(reading) == reading.dTip * 10 > reading.dPip * 12

\* A faulty variant of processLandmarks: fist looks at ring and pinky only.
processLandmarks_FistByRingPinky(landmarks) ==
    LET extended == [i \in FingerIndexes |-> isFingerExtended(landmarks.fingers[i])]
    IN  [x |-> landmarks.wristX, y |-> landmarks.wristY, roll |-> landmarks.roll,
         pinch |-> landmarks.pinchDistance < PINCH_THRESHOLD,
         fist |-> ~extended[3] /\ ~extended[4],
         peace |-> extended[1] /\ extended[2] /\ ~extended[3] /\ ~extended[4]]

\* processLandmarks: the frame of a landmark set.
processLandmarks(landmarks) ==
    LET extended == [i \in FingerIndexes |-> isFingerExtended(landmarks.fingers[i])]
    IN  [x |-> landmarks.wristX, y |-> landmarks.wristY, roll |-> landmarks.roll,
         pinch |-> landmarks.pinchDistance < PINCH_THRESHOLD,
         fist |-> \A i \in FingerIndexes : ~extended[i],
         peace |-> extended[1] /\ extended[2] /\ ~extended[3] /\ ~extended[4]]

\* The detection loop at a steady rate over classified landmark sets.
NextClassify ==
    \/ DetectorLoaded
    \/ CameraGranted
    \/ \E landmarks \in LandmarkSets : DetectedCycle(processLandmarks(landmarks), Tick)
    \/ NoHandCycle(Tick)

SpecClassify == Init /\ [][NextClassify]_vars

\* ------------------------------------------------------------ the claims
\* A step that is a detection cycle with a hand, and one without.
HandStep ==
    \E frame \in Frames, gap \in CycleGaps : DetectedCycle(frame, gap)

NoHandStep ==
    \E gap \in CycleGaps : NoHandCycle(gap)

\* C1: in every cycle that detects a hand, playGrab, playMagic and playWind
\* are invoked exactly when their flag is true in the frame of this cycle and
\* the flag recorded by the previous cycle is false.
C1_RisingEdgeTriggers ==
    [][HandStep =>
        /\ ("playGrab" \in cycle'.calls) <=> (cycle'.frame.pinch /\ ~prevPinchRef)
        /\ ("playMagic" \in cycle'.calls) <=> (cycle'.frame.fist /\ ~prevFistRef)
        /\ ("playWind" \in cycle'.calls) <=> (cycle'.frame.peace /\ ~prevPeaceRef)
      ]_vars

\* A cycle in which all three flags rise at once invoked the three triggers.
C1_Witness ==
    /\ cycle.kind = "hand"
    /\ ~cycle.prev.pinch /\ ~cycle.prev.fist /\ ~cycle.prev.peace
    /\ cycle.frame.pinch /\ cycle.frame.fist /\ cycle.frame.peace
    /\ cycle.calls = {"playGrab", "playMagic", "playWind"}

\* C2: in every cycle that detects a hand, playRelease is invoked exactly
\* when pinch is false in the frame and the recorded pinch is true; a fist or
\* peace flag that falls invokes nothing: a cycle in which no flag rises and
\* pinch does not change invokes no trigger at all.
C2_ReleaseOnlyOnPinchFall ==
    [][HandStep =>
        /\ ("playRelease" \in cycle'.calls) <=> (~cycle'.frame.pinch /\ prevPinchRef)
        /\ (prevFistRef /\ ~cycle'.frame.fist) => "playMagic" \notin cycle'.calls
        /\ (prevPeaceRef /\ ~cycle'.frame.peace) => "playWind" \notin cycle'.calls
        /\ ( /\ cycle'.frame.pinch = prevPinchRef
             /\ cycle'.frame.fist => prevFistRef
             /\ cycle'.frame.peace => prevPeaceRef ) => cycle'.calls = {}
      ]_vars

\* Pinch and fist fell in the same cycle, peace stayed up: only playRelease
\* was invoked.
C2_Witness ==
    /\ cycle.kind = "hand"
    /\ cycle.prev.pinch /\ cycle.prev.fist /\ cycle.prev.peace
    /\ ~cycle.frame.pinch /\ ~cycle.frame.fist /\ cycle.frame.peace
    /\ cycle.calls = {"playRelease"}

\* C3 as stated: when the hand was last detected 150 ms ago or more, exactly
\* one neutral frame has been delivered since and the recorded flags are
\* false.  Stated at the cycle that ends the gap.
C3_AsStated ==
    [][(HandStep /\ handSeen /\ cycle.kind = "nohand"
            /\ timeSinceHandSeen >= HAND_LOST_TIMEOUT_MS) =>
        /\ gapNeutrals = 1
        /\ ~prevPinchRef /\ ~prevFistRef /\ ~prevPeaceRef
      ]_vars

\* C3, amended: a cycle without a hand that starts more than 150 ms after the
\* last cycle that detected one, with the hand still recorded as present,
\* delivers the neutral frame, the only one of that gap, and resets hand
\* presence and the three recorded flags; every other cycle without a hand
\* delivers nothing.
C3_HandLostReset ==
    [][NoHandStep =>
        IF handPresentRef /\ timeSinceHandSeen' > 150
        THEN /\ cycle'.delivered = <<NEUTRAL_FRAME>>
             /\ gapNeutrals = 0 /\ gapNeutrals' = 1
             /\ ~handPresentRef'
             /\ ~prevPinchRef' /\ ~prevFistRef' /\ ~prevPeaceRef'
        ELSE /\ cycle'.delivered = <<>>
             /\ gapNeutrals' = gapNeutrals
      ]_vars

\* The reset happened with all three flags recorded as true.
C3_Witness ==
    /\ cycle.kind = "nohand"
    /\ cycle.prev.pinch /\ cycle.prev.fist /\ cycle.prev.peace
    /\ cycle.delivered = <<NEUTRAL_FRAME>>
    /\ gapNeutrals = 1
    /\ timeSinceHandSeen > 150
    /\ ~handPresentRef /\ ~prevPinchRef /\ ~prevFistRef /\ ~prevPeaceRef

\* C4: while the hand has been undetected for less than 150 ms, a cycle
\* without a hand delivers no frame and leaves hand presence and the recorded
\* flags as they were; when the hand reappears after such a gap, a gesture
\* whose flag is what it was before the gap invokes no trigger.
C4_ShortGapDebounced ==
    [][ /\ (NoHandStep /\ timeSinceHandSeen' < 150) =>
              /\ cycle'.delivered = <<>>
              /\ handPresentRef /\ handPresentRef'
              /\ UNCHANGED <<prevPinchRef, prevFistRef, prevPeaceRef, gapNeutrals>>
        /\ (HandStep /\ cycle.kind = "nohand" /\ timeSinceHandSeen < 150) =>
              /\ gapNeutrals = 0
              /\ (cycle'.frame.pinch = prevPinchRef) =>
                     cycle'.calls \cap {"playGrab", "playRelease"} = {}
              /\ (cycle'.frame.fist = prevFistRef) => "playMagic" \notin cycle'.calls
              /\ (cycle'.frame.peace = prevPeaceRef) => "playWind" \notin cycle'.calls
      ]_vars

\* The hand reappeared after a cycle without a hand, still pinching and
\* still a fist: the flags had survived the gap and nothing was invoked.
C4_Witness ==
    /\ cycle.kind = "hand"
    /\ cycle.prev.kind = "nohand"
    /\ cycle.prev.pinch /\ cycle.prev.fist /\ ~cycle.prev.peace
    /\ cycle.frame.pinch /\ cycle.frame.fist /\ ~cycle.frame.peace
    /\ cycle.calls = {}

\* C5: a cycle that detects no hand invokes no audio trigger, the cycle of
\* the hand-lost reset included.
C5_NoTriggerWithoutHand ==
    cycle.kind = "nohand" =>
        cycle.calls = {} /\ cycle.fired = {} /\ cycle.played = {}

\* The hand-lost reset happened while pinch was recorded as true.
C5_Witness ==
    /\ cycle.kind = "nohand"
    /\ cycle.reset
    /\ cycle.prev.pinch
    /\ ~prevPinchRef
    /\ "playRelease" \notin cycle.calls

\* C6 as stated: every cycle delivers exactly one frame, the classified one
\* with a hand and the neutral one without.
C6_AsStated ==
    /\ cycle.kind = "hand" => cycle.delivered = <<cycle.frame>>
    /\ cycle.kind = "nohand" => cycle.delivered = <<NEUTRAL_FRAME>>

\* C6, amended: a cycle that detects a hand delivers exactly one frame, the
\* classified one; a cycle that detects none delivers the neutral frame when
\* it is the cycle that clears hand presence and nothing otherwise.
C6_FramePerCycle ==
    [][ /\ HandStep =>
              /\ cycle'.delivered = <<cycle'.frame>>
              /\ cycle'.frame \in Frames
              /\ <<prevPinchRef', prevFistRef', prevPeaceRef'>> =
                     <<cycle'.frame.pinch, cycle'.frame.fist, cycle'.frame.peace>>
        /\ NoHandStep =>
              cycle'.delivered =
                  IF handPresentRef /\ ~handPresentRef' THEN <<NEUTRAL_FRAME>> ELSE <<>>
      ]_vars

\* A cycle without a hand, inside the timeout, delivered nothing.
C6_Witness ==
    /\ cycle.kind = "nohand"
    /\ handPresentRef
    /\ cycle.delivered = <<>>

\* The time of the last call the stand-alone throttle let through.
LastFired ==
    CHOOSE t \in fireLog : \A u \in fireLog : u <= t

\* C7: a throttled trigger with a cooldown of 200 ms lets its first call
\* through at once, drops every later call made less than 200 ms after the
\* last call it let through, and never fires a dropped call later: only a
\* call fires, at the time it is made, and the passing of time fires nothing.
C7_ThrottleDropsWithinCooldown ==
    [][ /\ UnitCall =>
              /\ callLog = {} => clock \in fireLog'
              /\ (fireLog # {} /\ clock - LastFired < 200) => fireLog' = fireLog
              /\ (fireLog # {} /\ clock - LastFired >= 200) => clock \in fireLog'
        /\ UnitAdvance => fireLog' = fireLog
        /\ fireLog' \ fireLog \subseteq {clock}
        /\ \A t \in callLog \ fireLog : t \notin fireLog'
      ]_vars

\* Calls at 0, 50 and 250 ms, and at no other time, fired at 0 and 250 only.
C7_Witness ==
    /\ callLog = {0, 50, 250}
    /\ fireLog = {0, 250}
    /\ clock = 300

\* A detection cycle of the controller at its steady cadence.
AudioCycleStep ==
    \/ \E frame \in Frames : DetectedCycle(frame, Tick)
    \/ NoHandCycle(Tick)

\* C8 as stated: a sound never starts less than its window (grab 200 ms,
\* magic 300 ms, wind 500 ms) after the same sound last started, whichever
\* trigger started it.
C8_AsStated ==
    [][AudioCycleStep =>
        \A t \in Triggers, u \in Triggers :
            (t \in cycle'.played /\ TriggerSound[u] = TriggerSound[t]) =>
                sincePlayed[u] + cycle'.gap >= Window[t]
      ]_vars

\* C8, amended: each of the four triggers starts its sound at most once in
\* its window: playGrab and playRelease once in 200 ms each, playMagic once
\* in 300 ms, playWind once in 500 ms.  (playGrab and playRelease both play
\* the grab sound, so that sound can start twice within 200 ms.)
C8_CuePerWindow ==
    [][AudioCycleStep =>
        \A t \in Triggers :
            /\ t \in cycle'.played => sincePlayed[t] + cycle'.gap >= Window[t]
            /\ t \in cycle'.played => t \in cycle'.calls /\ Plays(TriggerSound[t])
      ]_vars

\* With the sounds loaded, a pinch closed again within 200 ms of the last
\* grab cue was dropped while the release cue before it had played.
C8_Witness ==
    /\ cycle.kind = "hand"
    /\ Plays("grab") /\ Plays("magic") /\ Plays("wind")
    /\ "playGrab" \in cycle.calls
    /\ "playGrab" \notin cycle.played
    /\ sincePlayed.playGrab < 200
    /\ sincePlayed.playRelease < 200
    /\ sincePlayed.playRelease < sincePlayed.playGrab

\* C9: when two consecutive cycles detect a hand and classify it to the same
\* three flags, the second invokes no trigger.
C9_NoEdgeOnRepeat ==
    [][(HandStep /\ cycle.kind = "hand" /\ Flags(cycle'.frame) = Flags(cycle.frame)) =>
        cycle'.calls = {}
      ]_vars

\* The second of two detected cycles with pinch, fist and peace all held.
C9_Witness ==
    /\ cycle.kind = "hand"
    /\ cycle.prev.kind = "hand"
    /\ cycle.prev.pinch /\ cycle.prev.fist /\ cycle.prev.peace
    /\ cycle.frame.pinch /\ cycle.frame.fist /\ cycle.frame.peace
    /\ cycle.calls = {}

\* C10: between hand-lost resets playGrab and playRelease alternate, playGrab
\* first: playGrab is invoked only when the last of the two invoked since
\* the reset is playRelease or there is none, playRelease only when it is
\* playGrab, and never both in one cycle.
C10_GrabReleaseAlternate ==
    [][HandStep =>
        /\ "playGrab" \in cycle'.calls => lastPinchCall \in {"none", "playRelease"}
        /\ "playRelease" \in cycle'.calls => lastPinchCall = "playGrab"
        /\ ~({"playGrab", "playRelease"} \subseteq cycle'.calls)
        /\ (cycle'.frame.pinch = prevPinchRef) =>
               cycle'.calls \cap {"playGrab", "playRelease"} = {}
      ]_vars

\* A pinch held over a cycle and then opened: playRelease follows playGrab.
C10_Witness ==
    /\ cycle.kind = "hand"
    /\ cycle.prev.kind = "hand"
    /\ cycle.prev.pinch /\ ~cycle.frame.pinch
    /\ "playRelease" \in cycle.calls
    /\ lastPinchCall = "playRelease"
    /\ gapNeutrals = 0

\* C11: in the command-routing controller every cycle with a detected hand
\* (a landmark set that has its wrist point) sends exactly one ROTATE command;
\* its value is 0 when the wrist x is within 0.1 of 0.5 and (0.5 - x) * 4
\* otherwise.
C11_RotateDeadZone ==
    (routerCycle.kind = "hand" /\ routerCycle.hand.points >= 1) =>
        LET x == routerCycle.hand.wristX
        IN  Sent(routerCycle.emitted, "ROTATE") =
                << <<"ROTATE", IF 40 <= x /\ x <= 60 THEN 0 ELSE 200 - 4 * x>> >>

\* A full hand with the wrist at x = 0.7: ROTATE(-0.8) was sent and reached
\* the scene.
C11_Witness ==
    /\ routerCycle.kind = "hand"
    /\ routerCycle.hand.points = 21
    /\ routerCycle.hand.wristX = 70
    /\ routerCycle.emitted[1] = <<"ROTATE", -80>>
    /\ rotationSpeedRef = -400

\* C12 as stated: after a cycle that classifies a full hand as a fist the
\* rotation speed of the scene is zero.
C12_AsStated ==
    (routerCycle.kind = "hand" /\ routerCycle.hand.points = 21
        /\ routerCycle.hand.folded = 4) =>
        /\ rotationSpeedRef = 0
        /\ \A i \in 1..Len(routerCycle.emitted) :
               routerCycle.emitted[i][1] = "ROTATE" => routerCycle.emitted[i][2] = 0

\* C13: a cycle with a detected hand sends at most one ZOOM command; it sends
\* ZOOM(+0.1) only for a thumb-index distance below 0.05 and ZOOM(-0.1) only
\* for one above 0.15, and a cycle over a full landmark set sends them
\* whenever the distance is so: none for a distance in [0.05, 0.15].
C13_ZoomThresholds ==
    routerCycle.kind = "hand" =>
        LET zooms == Sent(routerCycle.emitted, "ZOOM")
            d == routerCycle.hand.distance
        IN  /\ Len(zooms) <= 1
            /\ \A i \in 1..Len(zooms) :
                   \/ zooms[i] = <<"ZOOM", 10>> /\ d < 5
                   \/ zooms[i] = <<"ZOOM", -10>> /\ d > 15
            /\ routerCycle.hand.points = 21 =>
                   (Len(zooms) = 0 <=> (5 <= d /\ d <= 15))

\* A full hand at a distance of exactly 0.05 sent no ZOOM, while the zoom
\* step of an earlier, tighter pinch was still pending in the scene.
C13_Witness ==
    /\ routerCycle.kind = "hand"
    /\ routerCycle.hand.points = 21
    /\ routerCycle.hand.distance = 5
    /\ Sent(routerCycle.emitted, "ZOOM") = <<>>
    /\ activeZoomRef = 10

\* C14: the camera distance of the scene stays within [2, 12], before and
\* after the clamp is needed.
C14_CameraZBounded ==
    /\ 200 <= cameraZ /\ cameraZ <= 1200
    /\ cameraZ = IF lastNewZ < 200 THEN 200 ELSE IF lastNewZ > 1200 THEN 1200 ELSE lastNewZ

\* A zoom-in step at the near bound: newZ was 1.9, the camera stayed at 2.
C14_Witness ==
    /\ lastNewZ = 190
    /\ cameraZ = 200
    /\ activeZoomRef = 0

\* C15 as stated: a cycle over a landmark set of fewer than 21 points ends
\* without an error and sends no command, as a cycle without a hand does.
C15_AsStated ==
    (routerCycle.kind = "hand" /\ routerCycle.hand.points < 21) =>
        /\ ~routerCycle.threw
        /\ routerCycle.emitted = <<>>
        /\ phase = "running"

\* C16 as stated: when the creation of the detector fails, the failure is
\* caught (no promise is left rejected without a handler) and no detection
\* cycle has run.
C16_AsStated ==
    phase = "detectorFailed" =>
        /\ ~unhandledRejection
        /\ cycle = NoCycle

\* C17: when getUserMedia rejects, the error is caught and logged once, no
\* detection cycle runs, and the controller stays as it was constructed: hand
\* not present, recorded flags false, status "Show your hand".
C17_CameraDeniedStaysAbsent ==
    /\ consoleErrors.camera = IF phase = "noCamera" THEN 1 ELSE 0
    /\ phase = "noCamera" =>
           /\ ~unhandledRejection
           /\ cycle = NoCycle /\ ~handSeen /\ ~lateCycle
           /\ ~handPresentRef /\ ~prevPinchRef /\ ~prevFistRef /\ ~prevPeaceRef
           /\ debugInfo = <<"Show your hand">>
           /\ ~ENABLED (\E frame \in Frames : DetectedCycle(frame, Tick))
           /\ ~ENABLED NoHandCycle(Tick)

\* The camera was denied and the component was later torn down.
C17_Witness ==
    /\ phase = "noCamera"
    /\ consoleErrors.camera = 1
    /\ handLandmarkerRef
    /\ mount = "cleaned"

\* The triggers a detected cycle invokes, from its frame and the flags it
\* found recorded, and those of them a throttle lets through.
EdgesOf(frame, recorded) ==
    {t \in Triggers :
        \/ t = "playGrab" /\ frame.pinch /\ ~recorded.pinch
        \/ t = "playRelease" /\ ~frame.pinch /\ recorded.pinch
        \/ t = "playMagic" /\ frame.fist /\ ~recorded.fist
        \/ t = "playWind" /\ frame.peace /\ ~recorded.peace}

\* C18: a sound file that fails to load is logged once and nothing is thrown;
\* its triggers then play nothing, and every detected cycle still delivers
\* its frame, records its flags and invokes the edge triggers of its flags,
\* whichever sounds are loaded, loading or failed.
C18_SilentWhenSoundFails ==
    /\ ~unhandledRejection
    /\ \A name \in SoundNames :
           consoleErrors[name] = IF buffersRef[name] = "failed" THEN 1 ELSE 0
    /\ cycle.kind = "hand" =>
           /\ cycle.delivered = <<cycle.frame>>
           /\ Flags(cycle.frame) =
                  [pinch |-> prevPinchRef, fist |-> prevFistRef, peace |-> prevPeaceRef]
           /\ cycle.calls = EdgesOf(cycle.frame, cycle.prev)
           /\ cycle.played =
                  {t \in cycle.fired : buffersRef[TriggerSound[t]] = "loaded"}
           /\ cycle.fired \subseteq cycle.calls

\* The grab sound failed and the magic sound loaded: a hand closing to a
\* pinching fist had both triggers let through, and only magic played.
C18_Witness ==
    /\ cycle.kind = "hand"
    /\ buffersRef.grab = "failed" /\ consoleErrors.grab = 1
    /\ buffersRef.magic = "loaded"
    /\ cycle.fired = {"playGrab", "playMagic"}
    /\ cycle.played = {"playMagic"}
    /\ cycle.delivered = <<cycle.frame>>

\* C19: once the component is removed no detection cycle is processed: the
\* record of the last cycle, the controller's refs, the throttles and the
\* sounds heard stay as they are, and after the cleanup no animation-frame
\* callback is pending.
C19_NoCycleAfterTeardown ==
    [][mount' # "mounted" =>
        /\ UNCHANGED <<cycle, controllerRefs, sinceLastRun, sincePlayed, handSeen,
                       gapNeutrals, lastPinchCall>>
        /\ ~lateCycle'
        /\ mount' = "cleaned" => phase' # "running"
      ]_vars

\* The component was torn down while the loop was running with a hand in
\* view: the pending callback was cancelled.
C19_Witness ==
    /\ mount = "cleaned"
    /\ phase = "cancelled"
    /\ cycle.kind = "hand"
    /\ handPresentRef
    /\ ~lateCycle

C21_AsStated ==
    [][AudioCycleStep =>
        \A t \in cycle'.calls : buffersRef[TriggerSound[t]] # "loading"
      ]_vars

\* C21, amended: the detection loop does not wait for the sound files, so a
\* trigger can be invoked while its file is still loading; it then plays
\* nothing.  A cycle never changes the buffers, and the triggers that play
\* are the accepted ones whose buffer was loaded when the cycle ran.
C21_SilentUntilLoaded ==
    [][AudioCycleStep =>
        /\ buffersRef' = buffersRef
        /\ cycle'.played =
               {t \in cycle'.fired : contextRef /\ buffersRef[TriggerSound[t]] = "loaded"}
      ]_vars

\* The pinch closed while the grab file was loading and played nothing; the
\* file arrived, and the release of that pinch played.
C21_Witness ==
    /\ cycle.kind = "hand"
    /\ buffersRef.grab = "loaded"
    /\ cycle.played = {"playRelease"}
    /\ sinceLastRun.playGrab < sincePlayed.playGrab

\* A finger of the landmark set counts as extended: its tip is farther from
\* the wrist than 1.2 times its PIP joint.
FarTip(reading) == reading.dTip * 10 > reading.dPip * 12

\* C22: the command-routing controller takes the hand for a fist exactly
\* when none of the index, middle, ring and pinky fingers has its tip
\* farther from the wrist than 1.2 times its PIP joint, whatever the thumb.
C22_FistIffNoFarTip ==
    (routerCycle.kind = "hand" /\ ~routerCycle.threw) =>
        (isFistRef <=> \A i \in FingerIndexes : ~FarTip(routerCycle.hand.fingers[i]))

\* A fist with every tip at exactly 1.2 times its PIP distance and the thumb
\* stretched out.
C22_Witness ==
    /\ routerCycle.kind = "hand"
    /\ isFistRef
    /\ \A i \in FingerIndexes : routerCycle.hand.fingers[i] = [dTip |-> 12, dPip |-> 10]
    /\ FarTip(routerCycle.hand.thumb)

\* The status string shown has the given label.
Lists(label) == \E i \in DOMAIN debugInfo : debugInfo[i] = label

\* C23: for a present hand the status string lists Grab iff pinch, Day iff
\* fist and y < 0.5, Night iff fist and y >= 0.5, Rake iff peace, a tilt
\* label iff fist is false and |roll| > 0.1, and it is Rotate exactly when
\* none of these apply.
C23_StatusLabels ==
    cycle.kind = "hand" =>
        LET frame == cycle.frame
            tilted == ~frame.fist /\ Abs(frame.roll) > 10
        IN  /\ Lists("Grab") <=> frame.pinch
            /\ Lists("Day") <=> (frame.fist /\ frame.y < 50)
            /\ Lists("Night") <=> (frame.fist /\ frame.y >= 50)
            /\ Lists("Rake") <=> frame.peace
            /\ (Lists("Tilt right") \/ Lists("Tilt left")) <=> tilted
            /\ frame.fist => ~Lists("Tilt right") /\ ~Lists("Tilt left")
            /\ (debugInfo = <<"Rotate">>) <=>
                   (~frame.pinch /\ ~frame.fist /\ ~frame.peace /\ ~tilted)
            /\ Lists("Rotate") => debugInfo = <<"Rotate">>
            /\ ~Lists("Show your hand")

\* A fist with a peace sign at height 0.5 and a roll of 0.11 reads
\* "Night, Rake", without a tilt label.
C23_Witness ==
    /\ cycle.kind = "hand"
    /\ cycle.frame.fist /\ cycle.frame.peace /\ ~cycle.frame.pinch
    /\ cycle.frame.y = 50 /\ cycle.frame.roll = 11
    /\ debugInfo = <<"Night", "Rake">>

\* The combinations of the three flags.
FlagCombinations == [pinch : BOOLEAN, fist : BOOLEAN, peace : BOOLEAN]

\* The next cycle can detect a landmark set whose frame has the flags c.
CanClassifyTo(c) ==
    ENABLED (\E landmarks \in LandmarkSets :
                 /\ Flags(processLandmarks(landmarks)) = c
                 /\ DetectedCycle(processLandmarks(landmarks), Tick))

\* C24 as stated: every combination of pinch, fist and peace, fist with
\* peace included, is the classification of some landmark set the running
\* loop can be given.
C24_AsStated ==
    LoopDue => \A c \in FlagCombinations : CanClassifyTo(c)

\* C24, amended: pinch goes with any value of fist and of peace, but fist and
\* peace exclude each other: the combinations some landmark set is
\* classified to are the six without fist and peace together, and no
\* detected cycle has a frame with both.
C24_FistExcludesPeace ==
    /\ LoopDue => \A c \in FlagCombinations :
                      CanClassifyTo(c) <=> ~(c.fist /\ c.peace)
    /\ cycle.kind = "hand" => ~(cycle.frame.fist /\ cycle.frame.peace)

\* A pinching fist in one cycle, a pinching peace sign in the next.
C24_Witness ==
    /\ cycle.kind = "hand"
    /\ cycle.prev.pinch /\ cycle.prev.fist /\ ~cycle.prev.peace
    /\ cycle.frame.pinch /\ cycle.frame.peace /\ ~cycle.frame.fist

\* C25: in the command-routing controller a cycle over a full landmark set
\* sends TOGGLE_THEME, once, exactly when the hand is a fist and the most
\* recent earlier cycle that detected a hand did not see a fist (or there was
\* none); cycles without a hand in between change nothing of this.
C25_ToggleOnFistEdge ==
    /\ (routerCycle.kind = "hand" /\ ~routerCycle.threw) =>
           Sent(routerCycle.emitted, "TOGGLE_THEME") =
               IF routerCycle.hand.folded = 4 /\ ~routerCycle.fistBefore
               THEN << <<"TOGGLE_THEME">> >> ELSE <<>>
    /\ routerCycle.kind = "nohand" =>
           Sent(routerCycle.emitted, "TOGGLE_THEME") = <<>>

\* A fist seen again after a cycle without a hand: the theme, toggled once
\* by the first fist cycle, is not toggled again.
C25_Witness ==
    /\ routerCycle.kind = "hand"
    /\ routerCycle.hand.folded = 4
    /\ routerCycle.fistBefore
    /\ routerCycle.wasFist
    /\ Sent(routerCycle.emitted, "TOGGLE_THEME") = <<>>
    /\ isNight

\* C26: in the command-routing controller a cycle over a landmark set sends
\* WATER(0.02), once, exactly when the hand is not a fist and the wrist y is
\* below 0.3; WATER and TOGGLE_THEME are never sent in the same cycle.
C26_WaterWhenOpenAndHigh ==
    (routerCycle.kind = "hand" /\ ~routerCycle.threw) =>
        /\ Sent(routerCycle.emitted, "WATER") =
               IF routerCycle.hand.folded # 4 /\ routerCycle.hand.wristY < 30
               THEN << <<"WATER", 2>> >> ELSE <<>>
        /\ Sent(routerCycle.emitted, "WATER") = <<>>
               \/ Sent(routerCycle.emitted, "TOGGLE_THEME") = <<>>

\* A new fist at y = 0.29 toggled the theme and sent no WATER; the scene is
\* still watering from the open hand before it.
C26_Witness ==
    /\ routerCycle.kind = "hand"
    /\ routerCycle.hand.folded = 4
    /\ routerCycle.hand.wristY = 29
    /\ Sent(routerCycle.emitted, "TOGGLE_THEME") # <<>>
    /\ Sent(routerCycle.emitted, "WATER") = <<>>
    /\ isWateringRef

\* C27: when the hand is lost with a gesture held and is detected again with
\* that gesture, the first cycle that detects it invokes the gesture's
\* rising-edge trigger again, and no trigger is invoked by the reset or by
\* the cycles without a hand: playGrab is invoked a second time with no
\* playRelease in between.
C27_RetriggerAfterReset ==
    /\ cycle.kind = "hand" =>
           /\ (cycle.prev.lost.pinch /\ cycle.frame.pinch) => "playGrab" \in cycle.calls
           /\ (cycle.prev.lost.fist /\ cycle.frame.fist) => "playMagic" \in cycle.calls
           /\ (cycle.prev.lost.peace /\ cycle.frame.peace) => "playWind" \in cycle.calls
    /\ cycle.kind = "nohand" => cycle.calls = {}

\* A pinch was recorded when the hand was lost, and the first cycle that
\* detects the hand again, still pinching, invokes playGrab.
C27_Witness ==
    /\ cycle.kind = "hand"
    /\ cycle.prev.kind = "nohand"
    /\ cycle.prev.lost.pinch
    /\ cycle.frame.pinch
    /\ "playGrab" \in cycle.calls
    /\ "playRelease" \notin cycle.calls
    /\ lastPinchCall = "playGrab"

\* C28: in every reachable state of the frame-delivery controller, when the
\* hand is recorded as not present the recorded pinch, fist and peace flags
\* are all false.
C28_AbsentHandHasNoFlags ==
    ~handPresentRef => (~prevPinchRef /\ ~prevFistRef /\ ~prevPeaceRef)

\* The reset of a hand lost with all three flags recorded.
C28_Witness ==
    /\ cycle.kind = "nohand" /\ cycle.reset
    /\ cycle.prev.pinch /\ cycle.prev.fist /\ cycle.prev.peace
    /\ ~handPresentRef
    /\ ~prevPinchRef /\ ~prevFistRef /\ ~prevPeaceRef

\* C29: in the command-routing controller a cycle without a detected hand
\* sends no command, ROTATE(0) included: the scene keeps the rotation speed,
\* and every other setting, the last command gave it.
C29_NoHandSendsNothing ==
    [][routerCycle'.kind = "nohand" =>
        /\ routerCycle'.emitted = <<>>
        /\ rotationSpeedRef' = rotationSpeedRef
        /\ UNCHANGED sceneVars
      ]_vars

\* The hand left at x = 0.3: the scene still turns at 0.04 per frame.
C29_Witness ==
    /\ routerCycle.kind = "nohand"
    /\ routerCycle.emitted = <<>>
    /\ rotationSpeedRef = 400

\* C30 as stated: once the cleanup of the effect has run, no detector is
\* open and no camera track is live, at whatever point of the
\* initialisation the component was removed.
C30_AsStated ==
    mount = "cleaned" => (handLandmarker # "open" /\ videoStream # "live")

\* C31: in every reachable state of the frame-delivery controller the status
\* shown is "Show your hand" exactly when the hand is recorded as not
\* present.
C31_PromptIffAbsent ==
    (debugInfo = <<"Show your hand">>) <=> ~handPresentRef

\* A hand was lost, in the second cycle without it: the status went back to
\* the prompt.
C31_Witness ==
    /\ handSeen
    /\ cycle.kind = "nohand" /\ cycle.reset
    /\ cycle.prev.kind = "nohand"
    /\ ~handPresentRef
    /\ debugInfo = <<"Show your hand">>

\* C32: the camera moves only in an animation tick that finds a pending zoom
\* delta; the tick applies that one delta, inside the bounds, and clears it,
\* so no command is applied twice.  A zoom command replaces whatever is
\* pending and does not move the camera: of several commands between two
\* ticks only the last is applied.
C32_ZoomAppliedOnce ==
    [][ /\ cameraZ' # cameraZ =>
              /\ activeZoomRef # 0 /\ activeZoomRef' = 0
              /\ cameraZ' = ClampZ(cameraZ - activeZoomRef)
        /\ (activeZoomRef # 0 /\ activeZoomRef' = 0) =>
              /\ lastNewZ' = cameraZ - activeZoomRef
              /\ cameraZ' = ClampZ(cameraZ - activeZoomRef)
        /\ (activeZoomRef' # activeZoomRef /\ activeZoomRef' # 0) =>
              /\ Sent(routerCycle'.emitted, "ZOOM") = << <<"ZOOM", activeZoomRef'>> >>
              /\ routerCycle'.pendingZoom = activeZoomRef
              /\ cameraZ' = cameraZ
      ]_vars

\* A zoom-in was pending when a zoom-out arrived; the next tick moved the
\* camera out by one step, from 7 to 7.1, and nothing is pending.
C32_Witness ==
    /\ routerCycle.kind = "hand"
    /\ routerCycle.pendingZoom = 10
    /\ Sent(routerCycle.emitted, "ZOOM") = << <<"ZOOM", -10>> >>
    /\ activeZoomRef = 0
    /\ lastNewZ = 710
    /\ cameraZ = 710

====
